---- MODULE Spec2Model ----
(***************************************************************************)
(* Model of backend/app/algorithms/disk_scheduling.py (class DiskScheduler)*)
(* and of the SimulationRequest schema of backend/app/models/schemas.py.   *)
(*                                                                         *)
(* A caller prepares constructor arguments, optionally passes them through *)
(* the request schema, constructs a DiskScheduler and then calls its       *)
(* methods in any order.  Strings that the code converts with upper() or   *)
(* lower() are modelled as sequences of one-character strings.             *)
(***************************************************************************)
EXTENDS Integers, Sequences, FiniteSets, TLC

VARIABLES
    args,              \* the constructor arguments as the caller gave them
    callerList,        \* current contents of the list object the caller passed
    requests,          \* self.requests
    initial_position,  \* self.initial_position
    disk_size,         \* self.disk_size
    status,            \* "raw", "rejected", "new", "failed" or "ready"
    error,             \* the exception raised by the last operation, or "none"
    call,              \* the last method call: [op, algorithm, direction]
    ran,               \* the policy method the last call executed, or "none"
    ret,               \* (sequence, total_seek_time, seek_operations) of the last call
    meta               \* the remaining keys of the dict simulate returned

vars == <<args, callerList, requests, initial_position, disk_size, status,
          error, call, ran, ret, meta>>

-----------------------------------------------------------------------------
(* Bounds of the model *)

MaxLen == 3
MaxDisk == 3

-----------------------------------------------------------------------------
(* Strings *)

LowerLetters ==
    <<"a","b","c","d","e","f","g","h","i","j","k","l","m",
      "n","o","p","q","r","s","t","u","v","w","x","y","z">>

UpperLetters ==
    <<"A","B","C","D","E","F","G","H","I","J","K","L","M",
      "N","O","P","Q","R","S","T","U","V","W","X","Y","Z">>

Punctuation == {"-", "_", " "}

Characters ==
    {LowerLetters[i] : i \in 1..Len(LowerLetters)} \cup
    {UpperLetters[i] : i \in 1..Len(UpperLetters)} \cup Punctuation

(* str.upper() and str.lower() on one character: letters change case, *)
(* every other character is kept                                      *)
UpperChar ==
    [c \in Characters |->
        IF \E i \in 1..Len(LowerLetters) : LowerLetters[i] = c
        THEN UpperLetters[CHOOSE i \in 1..Len(LowerLetters) : LowerLetters[i] = c]
        ELSE c]

LowerChar ==
    [c \in Characters |->
        IF \E i \in 1..Len(UpperLetters) : UpperLetters[i] = c
        THEN LowerLetters[CHOOSE i \in 1..Len(UpperLetters) : UpperLetters[i] = c]
        ELSE c]

upper(s) == [i \in 1..Len(s) |-> UpperChar[s[i]]]

lower(s) == [i \in 1..Len(s) |-> LowerChar[s[i]]]

S_RIGHT == <<"r","i","g","h","t">>
S_FCFS == <<"F","C","F","S">>
S_SSTF == <<"S","S","T","F">>
S_SCAN == <<"S","C","A","N">>
S_C_SCAN == <<"C","-","S","C","A","N">>
S_CSCAN == <<"C","S","C","A","N">>
S_LOOK == <<"L","O","O","K">>
S_C_LOOK == <<"C","-","L","O","O","K">>
S_CLOOK == <<"C","L","O","O","K">>

-----------------------------------------------------------------------------
(* Inputs *)

Directions ==
    { <<"R","i","g","h","T">>, <<"l","e","f","t">> }

AlgorithmNames ==
    { <<"f","c","f","s">>, <<"S","S","T","F">>, <<"S","c","a","n">>,
      <<"c","-","s","c","a","n">>, <<"C","S","C","A","N">>,
      <<"l","o","o","k">>, <<"C","-","L","o","o","k">>, <<"c","l","o","o","k">>,
      <<"B","O","G","U","S">>, <<"c","_","s","c","a","n">>,
      <<"s","c","a","n"," ">>, << >> }

RECURSIVE SeqsUpTo(_, _)
SeqsUpTo(S, n) ==
    IF n = 0 THEN { << >> }
    ELSE LET shorter == SeqsUpTo(S, n - 1)
         IN  shorter \cup { Append(s, x) : s \in { t \in shorter : Len(t) = n - 1 }, x \in S }

DiskSizes == {1, MaxDisk}

BoundedInputs ==
    UNION { [requests : SeqsUpTo((-1)..ds, MaxLen),
             initial_position : (-1)..ds,
             disk_size : {ds}] : ds \in DiskSizes }

Scenario ==
    [requests |-> <<98, 183, 37, 122, 14, 124, 65, 67>>,
     initial_position |-> 53,
     disk_size |-> 200]

Inputs == BoundedInputs \cup {Scenario}

-----------------------------------------------------------------------------
(* Helpers for Python built-ins *)

Abs(x) == IF x < 0 THEN -x ELSE x

RECURSIVE Insert(_, _)
Insert(s, x) ==
    IF s = << >> THEN <<x>>
    ELSE IF x < Head(s) THEN <<x>> \o s
    ELSE <<Head(s)>> \o Insert(Tail(s), x)

RECURSIVE sorted(_)
sorted(s) == IF s = << >> THEN << >> ELSE Insert(sorted(SubSeq(s, 1, Len(s) - 1)), s[Len(s)])

Reverse(s) == [i \in 1..Len(s) |-> s[Len(s) + 1 - i]]

sorted_reverse(s) == Reverse(sorted(s))

(* list.remove(x): drops the first occurrence of x *)
Remove(s, x) ==
    LET i == CHOOSE k \in 1..Len(s) : s[k] = x /\ \A j \in 1..(k - 1) : s[j] # x
    IN  SubSeq(s, 1, i - 1) \o SubSeq(s, i + 1, Len(s))

(* variant: a minimum scan that keeps the last of several equally near elements *)
MinByDistance_last(s, position) ==
    LET i == CHOOSE k \in 1..Len(s) :
                 /\ \A j \in 1..Len(s) : Abs(s[k] - position) <= Abs(s[j] - position)
                 /\ \A j \in (k + 1)..Len(s) : Abs(s[j] - position) > Abs(s[k] - position)
    IN  s[i]

(* min(s, key=...): the first element whose key is minimal *)
MinByDistance(s, position) ==
    LET i == CHOOSE k \in 1..Len(s) :
                 /\ \A j \in 1..Len(s) : Abs(s[k] - position) <= Abs(s[j] - position)
                 /\ \A j \in 1..(k - 1) : Abs(s[j] - position) > Abs(s[k] - position)
    IN  s[i]

(* the list comprehensions of scan, c_scan, look and c_look *)
AtOrAbove(s, position) == SelectSeq(s, LAMBDA r : r >= position)

(* variant: the comparison of the other branch, which takes the head's own track too *)
Below_inclusive(s, position) == SelectSeq(s, LAMBDA r : r <= position)

Below(s, position) == SelectSeq(s, LAMBDA r : r < position)

AtOrBelow(s, position) == SelectSeq(s, LAMBDA r : r <= position)

Above(s, position) == SelectSeq(s, LAMBDA r : r > position)

(* round(total / n, 2) in hundredths.  Python rounds an exact tie to the even *)
(* digit; a tie needs the reduced denominator to be a multiple of 8, and for  *)
(* n < 40 such a quotient is a binary fraction, so the float tie is exact.    *)
Round2(total, n) ==
    LET q == (total * 100) \div n
        r == (total * 100) % n
    IN  IF 2 * r < n THEN q
        ELSE IF 2 * r > n THEN q + 1
        ELSE IF q % 2 = 0 THEN q ELSE q + 1

-----------------------------------------------------------------------------
(* DiskScheduler *)

(* validate_requests: TRUE iff it raises ValueError *)
validate_requests(reqs, ds) == \E i \in 1..Len(reqs) : reqs[i] < 0 \/ reqs[i] >= ds

(* variant: the signed difference *)
seek_distance_signed(track, current) == track - current

seek_distance(track, current) == Abs(track - current)

RECURSIVE SeekLoop(_, _, _, _, _)
SeekLoop(sequence, i, current, total_seek_time, seek_operations) ==
    IF i > Len(sequence)
    THEN [total_seek_time |-> total_seek_time, seek_operations |-> seek_operations]
    ELSE LET track == sequence[i]
         IN  SeekLoop(sequence, i + 1, track,
                      total_seek_time + seek_distance(track, current),
                      Append(seek_operations, <<current, track>>))

calculate_seek_time(ip, sequence) ==
    IF sequence = << >>
    THEN [total_seek_time |-> 0, seek_operations |-> << >>]
    ELSE SeekLoop(sequence, 1, ip, 0, << >>)

(* the tuple (sequence, total_seek_time, seek_operations) a policy returns *)
Result(ip, sequence) ==
    LET c == calculate_seek_time(ip, sequence)
    IN  [sequence |-> sequence,
         total_seek_time |-> c.total_seek_time,
         seek_operations |-> c.seek_operations]

(* variant: the sorted copy the sweep policies start from *)
fcfs_sequence_sorted(reqs) == sorted(reqs)

(* fcfs: sequence = self.requests.copy() *)
fcfs_sequence(reqs) == reqs

fcfs(reqs, ip) == Result(ip, fcfs_sequence(reqs))

RECURSIVE SstfLoop(_, _, _)
SstfLoop(sequence, remaining_requests, current_position) ==
    IF remaining_requests = << >>
    THEN [sequence |-> sequence, remaining_requests |-> remaining_requests]
    ELSE LET closest == MinByDistance(remaining_requests, current_position)
         IN  SstfLoop(Append(sequence, closest),
                      Remove(remaining_requests, closest),
                      closest)

sstf(reqs, ip) == Result(ip, SstfLoop(<< >>, reqs, ip).sequence)

(* variant: the loop works on self.requests itself and leaves it empty *)
SstfStoredRequests_aliased(reqs, ip) == SstfLoop(<< >>, reqs, ip).remaining_requests

(* self.requests after sstf: the loop empties remaining_requests, which is a *)
(* copy of self.requests, so the stored list keeps its contents              *)
SstfStoredRequests(reqs, ip) == reqs

going_right(direction) == lower(direction) = S_RIGHT

(* variant: the edge taken as disk_size *)
scan_right_edge_size(ds) == ds

(* scan, going right: the edge track appended before the reversal *)
scan_right_edge(ds) == ds - 1

scan_sequence(reqs, ip, ds, direction) ==
    LET remaining_requests == sorted(reqs)
        current_position == ip
    IN  IF going_right(direction)
        THEN LET right_side == AtOrAbove(remaining_requests, current_position)
                 left_side == Below(remaining_requests, current_position)
             IN  sorted(right_side) \o
                 (IF left_side # << >>
                  THEN <<scan_right_edge(ds)>> \o sorted_reverse(left_side)
                  ELSE << >>)
        ELSE LET left_side == AtOrBelow(remaining_requests, current_position)
                 right_side == Above(remaining_requests, current_position)
             IN  sorted_reverse(left_side) \o
                 (IF right_side # << >>
                  THEN <<0>> \o sorted(right_side)
                  ELSE << >>)

scan(reqs, ip, ds, direction) == Result(ip, scan_sequence(reqs, ip, ds, direction))

(* variant: the reversed order scan uses *)
c_scan_wrapped_right_reversed(left_side) == sorted_reverse(left_side)

(* c_scan, going right: the requests behind the head, serviced after the wrap *)
c_scan_wrapped_right(left_side) == sorted(left_side)

c_scan_sequence(reqs, ip, ds, direction) ==
    LET remaining_requests == sorted(reqs)
        current_position == ip
    IN  IF going_right(direction)
        THEN LET right_side == AtOrAbove(remaining_requests, current_position)
                 left_side == Below(remaining_requests, current_position)
             IN  sorted(right_side) \o
                 (IF left_side # << >>
                  THEN <<ds - 1, 0>> \o c_scan_wrapped_right(left_side)
                  ELSE << >>)
        ELSE LET left_side == AtOrBelow(remaining_requests, current_position)
                 right_side == Above(remaining_requests, current_position)
             IN  sorted_reverse(left_side) \o
                 (IF right_side # << >>
                  THEN <<0, ds - 1>> \o sorted_reverse(right_side)
                  ELSE << >>)

c_scan(reqs, ip, ds, direction) == Result(ip, c_scan_sequence(reqs, ip, ds, direction))

(* variant: the increasing order c_look uses *)
look_behind_right_increasing(left_side) == sorted(left_side)

(* look, going right: the requests behind the head, serviced on the way back *)
look_behind_right(left_side) == sorted_reverse(left_side)

look_sequence(reqs, ip, direction) ==
    LET remaining_requests == sorted(reqs)
        current_position == ip
    IN  IF going_right(direction)
        THEN LET right_side == AtOrAbove(remaining_requests, current_position)
                 left_side == Below(remaining_requests, current_position)
             IN  sorted(right_side) \o
                 (IF left_side # << >> THEN look_behind_right(left_side) ELSE << >>)
        ELSE LET left_side == AtOrBelow(remaining_requests, current_position)
                 right_side == Above(remaining_requests, current_position)
             IN  sorted_reverse(left_side) \o
                 (IF right_side # << >> THEN sorted(right_side) ELSE << >>)

look(reqs, ip, direction) ==
    IF sorted(reqs) = << >>
    THEN [sequence |-> << >>, total_seek_time |-> 0, seek_operations |-> << >>]
    ELSE Result(ip, look_sequence(reqs, ip, direction))

c_look_sequence(reqs, ip, direction) ==
    LET remaining_requests == sorted(reqs)
        current_position == ip
    IN  IF going_right(direction)
        THEN LET right_side == AtOrAbove(remaining_requests, current_position)
                 left_side == Below(remaining_requests, current_position)
             IN  sorted(right_side) \o
                 (IF left_side # << >> THEN sorted(left_side) ELSE << >>)
        ELSE LET left_side == AtOrBelow(remaining_requests, current_position)
                 right_side == Above(remaining_requests, current_position)
             IN  sorted_reverse(left_side) \o
                 (IF right_side # << >> THEN sorted_reverse(right_side) ELSE << >>)

c_look(reqs, ip, direction) ==
    IF sorted(reqs) = << >>
    THEN [sequence |-> << >>, total_seek_time |-> 0, seek_operations |-> << >>]
    ELSE Result(ip, c_look_sequence(reqs, ip, direction))

(* variant: the name compared as given *)
normalized_verbatim(algorithm) == algorithm

(* simulate: algorithm = algorithm.upper() *)
normalized(algorithm) == upper(algorithm)

(* the branch simulate takes: the policy method it calls, or "none" when it raises *)
simulate_policy(algorithm) ==
    LET a == normalized(algorithm)
    IN  IF a = S_FCFS THEN "fcfs"
        ELSE IF a = S_SSTF THEN "sstf"
        ELSE IF a = S_SCAN THEN "scan"
        ELSE IF a = S_C_SCAN \/ a = S_CSCAN THEN "c_scan"
        ELSE IF a = S_LOOK THEN "look"
        ELSE IF a = S_C_LOOK \/ a = S_CLOOK THEN "c_look"
        ELSE "none"

(* the tuple the policy method named `policy` returns *)
RunPolicy(policy, reqs, ip, ds, direction) ==
    CASE policy = "fcfs" -> fcfs(reqs, ip)
      [] policy = "sstf" -> sstf(reqs, ip)
      [] policy = "scan" -> scan(reqs, ip, ds, direction)
      [] policy = "c_scan" -> c_scan(reqs, ip, ds, direction)
      [] policy = "look" -> look(reqs, ip, direction)
      [] policy = "c_look" -> c_look(reqs, ip, direction)

(* the keys of simulate's dict other than the policy's tuple; the average is *)
(* in hundredths                                                             *)
simulate_meta(algorithm, r, reqs, ip) ==
    [algorithm |-> normalized(algorithm),
     average_seek_time |->
         IF r.sequence # << >> THEN Round2(r.total_seek_time, Len(r.sequence)) ELSE 0,
     total_requests |-> Len(reqs),
     initial_position |-> ip]

NoResult == [sequence |-> << >>, total_seek_time |-> 0, seek_operations |-> << >>]

NoMeta == [algorithm |-> << >>, average_seek_time |-> 0, total_requests |-> 0,
           initial_position |-> 0]

NoCall == [op |-> "none", algorithm |-> << >>, direction |-> << >>]

(* SimulationRequest: initial_position has ge=0, disk_size has ge=1 *)
SimulationRequestValid(a) == a.initial_position >= 0 /\ a.disk_size >= 1

-----------------------------------------------------------------------------
(* Behaviour *)

Init ==
    /\ args \in Inputs
    /\ callerList = args.requests
    /\ requests = << >>
    /\ initial_position = 0
    /\ disk_size = 0
    /\ status \in {"raw", "new"}
    /\ error = "none"
    /\ call = NoCall
    /\ ran = "none"
    /\ ret = NoResult
    /\ meta = NoMeta

(* the boundary layer builds a SimulationRequest from the caller's values *)
SchemaValidate ==
    /\ status = "raw"
    /\ IF SimulationRequestValid(args)
       THEN status' = "new" /\ error' = "none"
       ELSE status' = "rejected" /\ error' = "ValidationError"
    /\ UNCHANGED <<args, callerList, requests, initial_position, disk_size,
                   call, ran, ret, meta>>

(* DiskScheduler(requests, initial_position, disk_size) *)
Construct ==
    /\ status = "new"
    /\ requests' = callerList
    /\ initial_position' = args.initial_position
    /\ disk_size' = args.disk_size
    /\ IF validate_requests(requests', disk_size')
       THEN status' = "failed" /\ error' = "OutOfBounds"
       ELSE status' = "ready" /\ error' = "none"
    /\ UNCHANGED <<args, callerList, call, ran, ret, meta>>

(* a policy method called directly on the scheduler *)
Returns(op, direction, r) ==
    /\ call' = [op |-> op, algorithm |-> << >>, direction |-> direction]
    /\ ran' = op
    /\ ret' = r
    /\ meta' = NoMeta
    /\ error' = "none"
    /\ UNCHANGED <<args, callerList, initial_position, disk_size, status>>

Fcfs ==
    /\ status = "ready"
    /\ Returns("fcfs", << >>, fcfs(requests, initial_position))
    /\ UNCHANGED requests

Sstf ==
    /\ status = "ready"
    /\ Returns("sstf", << >>, sstf(requests, initial_position))
    /\ requests' = SstfStoredRequests(requests, initial_position)

Scan ==
    /\ status = "ready"
    /\ \E direction \in Directions :
           Returns("scan", direction, scan(requests, initial_position, disk_size, direction))
    /\ UNCHANGED requests

CScan ==
    /\ status = "ready"
    /\ \E direction \in Directions :
           Returns("c_scan", direction, c_scan(requests, initial_position, disk_size, direction))
    /\ UNCHANGED requests

Look ==
    /\ status = "ready"
    /\ \E direction \in Directions :
           Returns("look", direction, look(requests, initial_position, direction))
    /\ UNCHANGED requests

CLook ==
    /\ status = "ready"
    /\ \E direction \in Directions :
           Returns("c_look", direction, c_look(requests, initial_position, direction))
    /\ UNCHANGED requests

Simulate ==
    /\ status = "ready"
    /\ \E algorithm \in AlgorithmNames, direction \in Directions :
           LET policy == simulate_policy(algorithm)
           IN  /\ call' = [op |-> "simulate", algorithm |-> algorithm,
                           direction |-> direction]
                          /\ ran' = policy
               /\ IF policy = "none"
                  THEN /\ error' = "UnknownAlgorithm"
                       /\ ret' = NoResult
                       /\ meta' = NoMeta
                       /\ UNCHANGED requests
                  ELSE LET r == RunPolicy(policy, requests, initial_position,
                                          disk_size, direction)
                       IN  /\ error' = "none"
                           /\ ret' = r
                           /\ requests' = IF policy = "sstf"
                                          THEN SstfStoredRequests(requests, initial_position)
                                          ELSE requests
                           /\ meta' = simulate_meta(algorithm, r, requests', initial_position)
    /\ UNCHANGED <<args, callerList, initial_position, disk_size, status>>

Next ==
    \/ SchemaValidate
    \/ Construct
    \/ Fcfs
    \/ Sstf
    \/ Scan
    \/ CScan
    \/ Look
    \/ CLook
    \/ Simulate

Spec == Init /\ [][Next]_vars

(* the shape of the state: the scheduler's three fields and the last call's outcome *)
TypeOK ==
    /\ status \in {"raw", "rejected", "new", "failed", "ready"}
    /\ error \in {"none", "ValidationError", "OutOfBounds", "UnknownAlgorithm"}
    /\ call.op \in {"none", "fcfs", "sstf", "scan", "c_scan", "look", "c_look", "simulate"}
    /\ ran \in {"none", "fcfs", "sstf", "scan", "c_scan", "look", "c_look"}
    /\ requests \in Seq(Int)
    /\ initial_position \in Int
    /\ disk_size \in Int
    /\ ret.sequence \in Seq(Int)
    /\ ret.total_seek_time \in Int
    /\ Len(ret.seek_operations) = Len(ret.sequence)

-----------------------------------------------------------------------------
(* Vocabulary of the properties *)

Range(s) == {s[i] : i \in 1..Len(s)}

Count(s, x) == Cardinality({i \in 1..Len(s) : s[i] = x})

SameMultiset(s, t) ==
    /\ Len(s) = Len(t)
    /\ \A x \in Range(s) \cup Range(t) : Count(s, x) = Count(t, x)

NonDecreasing(s) == \A i \in 1..(Len(s) - 1) : s[i] <= s[i + 1]

NonIncreasing(s) == \A i \in 1..(Len(s) - 1) : s[i] >= s[i + 1]

RECURSIVE SumOfMoves(_)
SumOfMoves(ops) ==
    IF ops = << >> THEN 0
    ELSE (IF ops[1][2] >= ops[1][1] THEN ops[1][2] - ops[1][1] ELSE ops[1][1] - ops[1][2])
         + SumOfMoves(Tail(ops))

(* the distance travelled from `start` along `path` *)
RECURSIVE PathLength(_, _)
PathLength(start, path) ==
    IF path = << >> THEN 0
    ELSE (IF path[1] >= start THEN path[1] - start ELSE start - path[1])
         + PathLength(path[1], Tail(path))

InRange(x, ds) == 0 <= x /\ x < ds

Policies == {"fcfs", "sstf", "scan", "c_scan", "look", "c_look"}

(* the last call ran the policy `op` to completion, directly or through simulate *)
Done(op) == status = "ready" /\ error = "none" /\ call.op # "none" /\ ran = op

(* the scheduler was built from arguments inside the documented bounds *)
ValidInput == InRange(initial_position, disk_size)

(* a valid input on a disk with room on both sides of the head *)
RoomyInput == ValidInput /\ disk_size >= MaxDisk

Rightward == lower(call.direction) = S_RIGHT

RequestsAtOrAbove == SelectSeq(requests, LAMBDA r : r >= initial_position)
RequestsBelow == SelectSeq(requests, LAMBDA r : r < initial_position)
RequestsAtOrBelow == SelectSeq(requests, LAMBDA r : r <= initial_position)
RequestsAbove == SelectSeq(requests, LAMBDA r : r > initial_position)

(* the group serviced first and the group on the opposite side *)
FirstGroup == IF Rightward THEN RequestsAtOrAbove ELSE RequestsAtOrBelow
OppositeGroup == IF Rightward THEN RequestsBelow ELSE RequestsAbove
NearEdge == IF Rightward THEN disk_size - 1 ELSE 0
FarEdge == IF Rightward THEN 0 ELSE disk_size - 1

-----------------------------------------------------------------------------
(* C1: constructing a DiskScheduler fails with the out-of-bounds error if and *)
(* only if some request or the initial position lies outside [0, disk_size),  *)
(* and no policy runs on a scheduler whose construction failed.               *)
C1_Claim ==
    status \in {"failed", "ready"} =>
        /\ status = "failed" <=>
               \/ \E i \in 1..Len(args.requests) : ~InRange(args.requests[i], args.disk_size)
               \/ ~InRange(args.initial_position, args.disk_size)
        /\ status = "failed" => error = "OutOfBounds" /\ ran = "none" /\ call = NoCall

-----------------------------------------------------------------------------
(* C2, as claimed: the service order of sstf, scan, c_scan, look and c_look *)
(* is a permutation of the request list.                                    *)
C2_Claim ==
    \A op \in {"sstf", "scan", "c_scan", "look", "c_look"} :
        Done(op) /\ ValidInput => SameMultiset(ret.sequence, requests)

(* the edge tracks scan and c_scan add to the service order *)
Waypoints ==
    IF OppositeGroup = << >> THEN << >>
    ELSE IF ran = "scan" THEN <<NearEdge>>
    ELSE <<NearEdge, FarEdge>>

(* C2, amended: the service order of sstf, look and c_look is a permutation *)
(* of the request list; that of scan and c_scan is a permutation of the      *)
(* request list when no request lies on the opposite side of the initial     *)
(* position, and otherwise a permutation of the request list plus the edge   *)
(* waypoints (one edge track for scan, both edge tracks for c_scan).         *)
C2_Permutation ==
    /\ \A op \in {"sstf", "look", "c_look"} :
           Done(op) => SameMultiset(ret.sequence, requests)
    /\ \A op \in {"scan", "c_scan"} :
           Done(op) => SameMultiset(ret.sequence, requests \o Waypoints)

C2_Witness ==
    /\ Done("c_look")
    /\ RoomyInput
    /\ Len(requests) = 3
    /\ \E i, j \in 1..Len(requests) : i # j /\ requests[i] = requests[j]
    /\ initial_position \in Range(requests)
    /\ OppositeGroup # << >>
    /\ SameMultiset(ret.sequence, requests)

-----------------------------------------------------------------------------
(* C3: for every policy and every non-empty request list, the total seek     *)
(* time is non-negative and equals the sum of |to - from| over the seek      *)
(* operations; there is one operation per track of the sequence, the i-th    *)
(* operation ends on the i-th track, the first starts at the initial         *)
(* position and each operation starts where the one before it ended.         *)
C3_SeekAccounting ==
    \A op \in Policies :
        Done(op) /\ requests # << >> =>
            LET ops == ret.seek_operations
            IN  /\ ret.total_seek_time >= 0
                /\ ret.total_seek_time = SumOfMoves(ops)
                /\ Len(ops) = Len(ret.sequence)
                /\ \A i \in 1..Len(ops) : ops[i][2] = ret.sequence[i]
                /\ ops[1][1] = initial_position
                /\ \A i \in 1..(Len(ops) - 1) : ops[i][2] = ops[i + 1][1]

C3_Witness ==
    /\ Done("scan")
    /\ RoomyInput
    /\ Len(ret.seek_operations) = 4
    /\ ret.total_seek_time > 0
    /\ \E i \in 1..Len(ret.seek_operations) :
           ret.seek_operations[i][2] < ret.seek_operations[i][1]

-----------------------------------------------------------------------------
(* C4: fcfs returns the request list itself, element by element, and its     *)
(* total seek time is the distance travelled from the initial position along *)
(* that list; requests [98,183,37,122,14,124,65,67] from 53 give 640.        *)
C4_FcfsIdentity ==
    Done("fcfs") =>
        /\ ret.sequence = args.requests
        /\ ret.total_seek_time = PathLength(args.initial_position, args.requests)
        /\ args = Scenario => ret.total_seek_time = 640

C4_Witness ==
    /\ Done("fcfs")
    /\ args = Scenario
    /\ ret.sequence = Scenario.requests
    /\ ret.total_seek_time = 640

-----------------------------------------------------------------------------
(* the steps of sstf, read off the returned sequence *)

FirstIndex(s, x) == CHOOSE k \in 1..Len(s) : s[k] = x /\ \A j \in 1..(k - 1) : s[j] # x

DropFirst(s, x) ==
    IF x \in Range(s)
    THEN SubSeq(s, 1, FirstIndex(s, x) - 1) \o SubSeq(s, FirstIndex(s, x) + 1, Len(s))
    ELSE s

(* the requests not yet serviced when the k-th track is selected *)
RECURSIVE Unserviced(_)
Unserviced(k) ==
    IF k = 1 THEN requests ELSE DropFirst(Unserviced(k - 1), ret.sequence[k - 1])

HeadBefore(k) == IF k = 1 THEN initial_position ELSE ret.sequence[k - 1]

Distance(a, b) == IF a >= b THEN a - b ELSE b - a

(* every selection is a nearest unserviced request, and all requests are serviced *)
SstfGreedy ==
    /\ Len(ret.sequence) = Len(requests)
    /\ \A k \in 1..Len(ret.sequence) :
           /\ ret.sequence[k] \in Range(Unserviced(k))
           /\ \A r \in Range(Unserviced(k)) :
                  Distance(ret.sequence[k], HeadBefore(k)) <= Distance(r, HeadBefore(k))
    /\ Unserviced(Len(ret.sequence) + 1) = << >>

(* C5, as claimed: every track sstf selects is a nearest unserviced request, *)
(* of two equally near requests the lower-valued one is selected, and the    *)
(* loop makes len(requests) selections and leaves nothing unserviced.        *)
C5_Claim ==
    Done("sstf") /\ ValidInput =>
        /\ SstfGreedy
        /\ \A k \in 1..Len(ret.sequence) : \A r \in Range(Unserviced(k)) :
               Distance(r, HeadBefore(k)) = Distance(ret.sequence[k], HeadBefore(k))
                   => ret.sequence[k] <= r

(* C5, amended: every track sstf selects is a nearest unserviced request, of *)
(* two equally near requests the one that comes first in the request list is *)
(* selected, and the loop makes len(requests) selections and leaves nothing  *)
(* unserviced; the scenario requests from 53 give [65,67,37,14,98,122,124,   *)
(* 183] with total 236.                                                      *)
C5_SstfSteps ==
    Done("sstf") =>
        /\ SstfGreedy
        /\ \A k \in 1..Len(ret.sequence) :
               LET rem == Unserviced(k)
               IN  \A j \in 1..Len(rem) :
                       Distance(rem[j], HeadBefore(k)) = Distance(ret.sequence[k], HeadBefore(k))
                           => FirstIndex(rem, ret.sequence[k]) <= j
        /\ args = Scenario =>
               /\ ret.sequence = <<65, 67, 37, 14, 98, 122, 124, 183>>
               /\ ret.total_seek_time = 236

C5_Witness ==
    /\ Done("sstf")
    /\ RoomyInput
    /\ Len(ret.sequence) = 3
    /\ \E k \in 1..Len(ret.sequence) : \E r \in Range(Unserviced(k)) :
           /\ r < ret.sequence[k]
           /\ Distance(r, HeadBefore(k)) = Distance(ret.sequence[k], HeadBefore(k))

-----------------------------------------------------------------------------
(* C6: scan services the group on the side of the initial direction in sweep *)
(* order (requests >= the initial position, increasing, for "right";         *)
(* requests <= it, decreasing, otherwise); exactly when the opposite group   *)
(* is non-empty it then visits the edge (disk_size-1 for "right", else 0)    *)
(* and services the opposite group in the reverse order.                     *)
C6_ScanOrder ==
    Done("scan") =>
        LET seq == ret.sequence
            n1 == Len(FirstGroup)
            n2 == Len(OppositeGroup)
        IN  /\ Len(seq) = n1 + (IF n2 > 0 THEN n2 + 1 ELSE 0)
            /\ SameMultiset(SubSeq(seq, 1, n1), FirstGroup)
            /\ IF Rightward THEN NonDecreasing(SubSeq(seq, 1, n1))
                            ELSE NonIncreasing(SubSeq(seq, 1, n1))
            /\ n2 > 0 =>
                   /\ seq[n1 + 1] = NearEdge
                   /\ SameMultiset(SubSeq(seq, n1 + 2, Len(seq)), OppositeGroup)
                   /\ IF Rightward THEN NonIncreasing(SubSeq(seq, n1 + 2, Len(seq)))
                                   ELSE NonDecreasing(SubSeq(seq, n1 + 2, Len(seq)))
            /\ args = Scenario /\ Rightward =>
                   seq = <<65, 67, 98, 122, 124, 183, 199, 37, 14>>

C6_Witness ==
    /\ Done("scan")
    /\ RoomyInput
    /\ Rightward
    /\ Len(FirstGroup) = 1
    /\ Len(OppositeGroup) = 2
    /\ NearEdge \notin Range(requests)
    /\ ret.sequence[2] = disk_size - 1

-----------------------------------------------------------------------------
RecognisedNames ==
    {S_FCFS, S_SSTF, S_SCAN, S_C_SCAN, S_CSCAN, S_LOOK, S_C_LOOK, S_CLOOK}

EqualIgnoringCase(s, t) ==
    /\ Len(s) = Len(t)
    /\ \A i \in 1..Len(s) : LowerChar[s[i]] = LowerChar[t[i]]

(* C7: simulate raises the unknown-algorithm error exactly for the names     *)
(* that, ignoring letter case, are none of FCFS, SSTF, SCAN, C-SCAN, CSCAN,  *)
(* LOOK, C-LOOK, CLOOK; it then runs no policy, whatever the requests are;   *)
(* for a recognised name in any letter case it returns a result record.      *)
C7_UnknownAlgorithm ==
    status = "ready" /\ call.op = "simulate" =>
        IF \E n \in RecognisedNames : EqualIgnoringCase(call.algorithm, n)
        THEN /\ error = "none"
             /\ ran \in Policies
             /\ meta.algorithm \in RecognisedNames
             /\ meta.total_requests = Len(requests)
             /\ Len(ret.seek_operations) = Len(ret.sequence)
        ELSE /\ error = "UnknownAlgorithm"
             /\ ran = "none"
             /\ ret = NoResult
             /\ meta = NoMeta

C7_Witness ==
    /\ status = "ready"
    /\ call.op = "simulate"
    /\ call.algorithm = <<"B","O","G","U","S">>
    /\ requests = << >>
    /\ error = "UnknownAlgorithm"
    /\ ran = "none"

-----------------------------------------------------------------------------
(* C8: when the opposite group is non-empty, c_scan services the first       *)
(* group in sweep order, visits the edge ahead, then the opposite edge, then *)
(* the opposite group in the same sweep order, so that apart from the one    *)
(* edge-to-edge jump the tracks never move against the sweep; when the       *)
(* opposite group is empty no edge is visited.                               *)
C8_CScanOrder ==
    Done("c_scan") =>
        LET seq == ret.sequence
            n1 == Len(FirstGroup)
            n2 == Len(OppositeGroup)
        IN  /\ Len(seq) = n1 + (IF n2 > 0 THEN n2 + 2 ELSE 0)
            /\ SameMultiset(SubSeq(seq, 1, n1), FirstGroup)
            /\ n2 > 0 =>
                   /\ seq[n1 + 1] = NearEdge
                   /\ seq[n1 + 2] = FarEdge
                   /\ SameMultiset(SubSeq(seq, n1 + 3, Len(seq)), OppositeGroup)
            /\ \A i \in 1..(Len(seq) - 1) :
                   (n2 > 0 /\ i = n1 + 1) \/
                   (IF Rightward THEN seq[i] <= seq[i + 1] ELSE seq[i] >= seq[i + 1])

C8_Witness ==
    /\ Done("c_scan")
    /\ RoomyInput
    /\ Rightward
    /\ Len(FirstGroup) = 1
    /\ Len(OppositeGroup) = 2
    /\ OppositeGroup[1] # OppositeGroup[2]
    /\ ret.sequence[2] = disk_size - 1
    /\ ret.sequence[3] = 0

-----------------------------------------------------------------------------
ScanTotal ==
    scan(requests, initial_position, disk_size, call.direction).total_seek_time

(* the first group's request farthest from the initial position *)
Outermost ==
    IF Rightward
    THEN CHOOSE m \in Range(FirstGroup) : \A r \in Range(FirstGroup) : r <= m
    ELSE CHOOSE m \in Range(FirstGroup) : \A r \in Range(FirstGroup) : r >= m

(* C9, as claimed: look's total seek time never exceeds scan's, and is       *)
(* strictly smaller whenever the outermost request in the initial direction  *)
(* is not on the disk edge in that direction.                                *)
C9_Claim ==
    Done("look") /\ ValidInput =>
        /\ ret.total_seek_time <= ScanTotal
        /\ FirstGroup # << >> /\ Outermost # NearEdge => ret.total_seek_time < ScanTotal

(* C9, amended: look's total seek time never exceeds scan's; it is strictly  *)
(* smaller whenever some request lies on the opposite side of the initial    *)
(* position and the outermost request in the initial direction is not on the *)
(* disk edge in that direction; when no request lies on the opposite side    *)
(* the two totals are equal.                                                 *)
C9_LookVsScan ==
    Done("look") =>
        /\ ret.total_seek_time <= ScanTotal
        /\ OppositeGroup # << >> /\ FirstGroup # << >> /\ Outermost # NearEdge
               => ret.total_seek_time < ScanTotal
        /\ OppositeGroup = << >> => ret.total_seek_time = ScanTotal

C9_Witness ==
    /\ Done("look")
    /\ RoomyInput
    /\ Len(OppositeGroup) = 2
    /\ FirstGroup # << >>
    /\ Outermost # NearEdge
    /\ ret.total_seek_time < ScanTotal

-----------------------------------------------------------------------------
(* what the last call returns on a scheduler just built from the caller's arguments *)
FreshReturn ==
    LET policy == IF call.op = "simulate" THEN simulate_policy(call.algorithm) ELSE call.op
    IN  IF policy = "none" THEN NoResult
        ELSE RunPolicy(policy, args.requests, args.initial_position, args.disk_size,
                       call.direction)

(* C10: whatever calls have been made on a scheduler, its request list,      *)
(* initial position and disk size are those it was constructed with, the     *)
(* caller's list is unchanged, and the last call returned what it returns on *)
(* a freshly constructed scheduler.                                          *)
C10_Frame ==
    status = "ready" =>
        /\ requests = args.requests
        /\ initial_position = args.initial_position
        /\ disk_size = args.disk_size
        /\ callerList = args.requests
        /\ call.op # "none" => ret = FreshReturn

C10_Witness ==
    /\ status = "ready"
    /\ RoomyInput
    /\ call.op = "sstf"
    /\ Len(ret.sequence) = 3
    /\ Cardinality(Range(requests)) = 3
    /\ ret.sequence # requests
    /\ requests = args.requests
    /\ callerList = args.requests

====
